---- MODULE Spec2Model ----
(***************************************************************************)
(* plot_group (plotly_group.py): one call of the function, section by      *)
(* section.  Numbers are fixed-point: series values and float64 interval   *)
(* bounds are counted in thousandths (Milli), so that round(.., 3) is an   *)
(* exact operation of the model; the 80th percentile is counted in fifths  *)
(* of a thousandth, the finest grain numpy's linear interpolation needs.   *)
(* Custom interval bounds are Python ints (an int64 array).  Arithmetic is *)
(* exact: the model does not follow binary floating-point rounding error.  *)
(* Where the outcome depends on the numpy release or on the rendering      *)
(* engine being installed, the action takes every outcome.                 *)
(***************************************************************************)
EXTENDS Integers, Sequences, FiniteSets, TLC

VARIABLES pc, series_type, series, bar_color, intervals_arg, higher_vals_arg,
          intervals, higher_vals, intervals_dict, x, y, kind, output, fig,
          result, err

vars == <<pc, series_type, series, bar_color, intervals_arg, higher_vals_arg,
          intervals, higher_vals, intervals_dict, x, y, kind, output, fig,
          result, err>>

(* ------------------------------ bounds --------------------------------- *)
MaxLen == 2
MaxIv == 2

(* ------------------------- program constants --------------------------- *)
Milli == 1000
nbr_of_intervals == 5
PercentileQ == 80

(* ------------------------------ inputs --------------------------------- *)
\* series values in thousandths: -1, 0, 0.001, 2, 30
Vals == {-1000, 0, 1, 2000, 30000}
Num(v) == <<"num", v>>
NaN == <<"nan">>
NonNumeric == <<"str">>
Elems == {Num(v) : v \in Vals} \cup {NaN, NonNumeric}
SeqsUpTo(S, n) == UNION {[1..k -> S] : k \in 0..n}
Scenario1 == <<Num(1000), Num(2000), Num(3000), Num(4000), Num(5000), Num(100000)>>
Scenario2 == <<Num(5000), Num(15000), Num(25000)>>
SeriesInputs == SeqsUpTo(Elems, MaxLen) \cup {Scenario1, Scenario2}

\* elements of a custom intervals list
Ivl(lo, hi) == <<"pair", lo, hi>>
Scalar == <<"scalar">>
ShortList == <<"list1">>
NonNumPair == <<"nonnum">>
IvElems == {Ivl(0, 2), Ivl(2, 4), Ivl(0, 4), Ivl(2, 2),
            Scalar, ShortList, NonNumPair}
ScenarioIvs == {<<Ivl(0, 10), Ivl(10, 20)>>, <<Ivl(5, 2)>>}
NoneType == [type |-> "NoneType", dtype |-> "none", rows |-> <<>>]
PyList(rows) == [type |-> "list", dtype |-> "none", rows |-> rows]
PyTuple == [type |-> "tuple", dtype |-> "none", rows |-> <<>>]
NdArray(dtype, rows) == [type |-> "ndarray", dtype |-> dtype, rows |-> rows]
IntervalsInputs == {NoneType, PyTuple}
                   \cup {PyList(r) : r \in SeqsUpTo(IvElems, MaxIv) \cup ScenarioIvs}

\* bar_color arguments: the textual form, RGB triples, and wrong ones
Colors == {[type |-> "str", vals |-> <<>>, text |-> "rgb(255, 0, 0)"],
           [type |-> "tuple", vals |-> <<255, 0, 0>>, text |-> ""],
           [type |-> "list", vals |-> <<255, 0, 0>>, text |-> ""],
           [type |-> "tuple", vals |-> <<256, 0, 0>>, text |-> ""],
           [type |-> "tuple", vals |-> <<255, 0>>, text |-> ""],
           [type |-> "int", vals |-> <<>>, text |-> ""]}
Kinds == {"bar", "pie", "scatter"}
Outputs == {"img", "bytes", "fig", "fig_obj", "csv"}

(* ----------------------------- exceptions ------------------------------ *)
NoErr == [cls |-> "none", at |-> "none", idx |-> -1]
Raise(cls, at, idx) == [cls |-> cls, at |-> at, idx |-> idx]

(* ------------------------------ numbers -------------------------------- *)
\* float64 nan, a code point outside every value the model computes
nan == 0 - 999999999

(* ------------------------------ strings -------------------------------- *)
Digit(d) ==
  CASE d = 0 -> "0" [] d = 1 -> "1" [] d = 2 -> "2" [] d = 3 -> "3"
    [] d = 4 -> "4" [] d = 5 -> "5" [] d = 6 -> "6" [] d = 7 -> "7"
    [] d = 8 -> "8" [] d = 9 -> "9"

RECURSIVE NatStr(_)
NatStr(n) == IF n < 10 THEN Digit(n) ELSE NatStr(n \div 10) \o Digit(n % 10)

\* str() of a Python int / numpy int64
IntStr(n) == IF n < 0 THEN "-" \o NatStr(-n) ELSE NatStr(n)

\* the fraction digits of f thousandths, trailing zeros dropped, one kept
FracStr(f) ==
  IF f % 100 = 0 THEN Digit(f \div 100)
  ELSE IF f % 10 = 0 THEN Digit(f \div 100) \o Digit((f \div 10) % 10)
  ELSE Digit(f \div 100) \o Digit((f \div 10) % 10) \o Digit(f % 10)

\* str() of a numpy float64 holding m thousandths (shortest repr); the
\* inputs of the model never round to a negative zero
FloatStr(m) ==
  LET a == IF m < 0 THEN -m ELSE m
  IN IF m = nan THEN "nan"
     ELSE (IF m < 0 THEN "-" ELSE "") \o NatStr(a \div Milli) \o "." \o FracStr(a % Milli)

NumStr(dtype, n) == IF dtype = "float64" THEN FloatStr(n) ELSE IntStr(n)

\* str(tuple) of an RGB triple
RECURSIVE JoinInts(_)
JoinInts(s) ==
  IF Len(s) = 0 THEN ""
  ELSE IF Len(s) = 1 THEN IntStr(s[1])
  ELSE IntStr(s[1]) \o ", " \o JoinInts(Tail(s))

RgbStr(vals) == "rgb(" \o JoinInts(vals) \o ")"

(* ------------------------------- Init ---------------------------------- *)
\* the call frame at entry: the series and kind arguments and the signature's
\* defaults; each other argument is bound where the function first reads it
Init ==
  /\ pc = "series_check"
  /\ series_type \in {"Series", "list"}
  /\ series \in SeriesInputs
  /\ bar_color = "#1776f2"
  /\ intervals_arg = NoneType
  /\ higher_vals_arg = FALSE
  /\ intervals = NoneType
  /\ higher_vals = FALSE
  /\ intervals_dict = <<>>
  /\ x = <<>>
  /\ y = <<>>
  /\ kind \in Kinds
  /\ output = "fig"
  /\ fig = "none"
  /\ result = "none"
  /\ err = NoErr

(* --------------------------- SERIES CHECK ------------------------------ *)
dropna(s) == SelectSeq(s, LAMBDA e : e # NaN)

\* the index of the first element that is not an int or float, 0 if none
RECURSIVE FirstNonNumeric(_, _)
FirstNonNumeric(s, i) ==
  IF i > Len(s) THEN 0
  ELSE IF s[i][1] # "num" THEN i
  ELSE FirstNonNumeric(s, i + 1)

SeriesCheck ==
  /\ pc = "series_check"
  /\ IF series_type # "Series"
     THEN /\ err' = Raise("TypeError", "series", -1)
          /\ pc' = "raised"
          /\ UNCHANGED series
     ELSE LET kept == dropna(series)
              bad == FirstNonNumeric(kept, 1)
          IN /\ series' = kept
             /\ IF bad # 0
                THEN /\ err' = Raise("ValueError", "series", bad - 1)
                     /\ pc' = "raised"
                ELSE /\ err' = err
                     /\ pc' = "bar_color_check"
  /\ UNCHANGED <<series_type, bar_color, intervals_arg, higher_vals_arg,
                 intervals, higher_vals, intervals_dict, x, y, kind, output,
                 fig, result>>

(* -------------------------- BAR COLOR CHECK ---------------------------- *)
IsRGB(v) == v >= 0 /\ v <= 255

BarColorCheck ==
  /\ pc = "bar_color_check"
  /\ \E c \in Colors :
       IF c.type \notin {"tuple", "list", "str"}
       THEN /\ err' = Raise("TypeError", "bar_color", -1)
            /\ pc' = "raised"
            /\ UNCHANGED bar_color
       ELSE IF c.type \in {"tuple", "list"}
       THEN IF Len(c.vals) # 3
            THEN /\ err' = Raise("ValueError", "bar_color", -1)
                 /\ pc' = "raised"
                 /\ UNCHANGED bar_color
            ELSE IF \A i \in 1..3 : IsRGB(c.vals[i])
            THEN /\ bar_color' = RgbStr(c.vals)
                 /\ pc' = "intervals"
                 /\ UNCHANGED err
            ELSE /\ err' = Raise("ValueError", "bar_color", -1)
                 /\ pc' = "raised"
                 /\ UNCHANGED bar_color
       ELSE /\ bar_color' = c.text
            /\ pc' = "intervals"
            /\ UNCHANGED err
  /\ UNCHANGED <<series_type, series, intervals_arg, higher_vals_arg,
                 intervals, higher_vals, intervals_dict, x, y, kind, output,
                 fig, result>>

(* ------------------------- DEFAULT INTERVALS --------------------------- *)
Lt(a, b) == a # nan /\ b # nan /\ a < b
Le(a, b) == a # nan /\ b # nan /\ a <= b

RECURSIVE Insert(_, _)
Insert(v, s) ==
  IF Len(s) = 0 THEN <<v>>
  ELSE IF v <= Head(s) THEN <<v>> \o s
  ELSE <<Head(s)>> \o Insert(v, Tail(s))

RECURSIVE Sorted(_)
Sorted(s) == IF Len(s) = 0 THEN <<>> ELSE Insert(Head(s), Sorted(Tail(s)))

values(s) == [i \in 1..Len(s) |-> s[i][2]]

\* mutant: the virtual index taken as n*q/100 instead of (n-1)*q/100
percentileOffByOne(a, q) ==
  LET n == Len(a)
      srt == Sorted(a)
      h == n * q
      prev == IF h \div 100 > n - 1 THEN n - 1 ELSE h \div 100
      nxt == IF prev + 1 > n - 1 THEN n - 1 ELSE prev + 1
      gamma5 == (h % 100) \div 20
  IN 5 * srt[prev + 1] + gamma5 * (srt[nxt + 1] - srt[prev + 1])

\* np.percentile(a, 80), method 'linear', in fifths of a thousandth:
\* virtual index (n-1)*80/100, interpolated between its two neighbours
percentile(a, q) ==
  LET n == Len(a)
      srt == Sorted(a)
      h == (n - 1) * q
      prev == h \div 100
      nxt == IF prev + 1 > n - 1 THEN n - 1 ELSE prev + 1
      gamma5 == (h % 100) \div 20
  IN 5 * srt[prev + 1] + gamma5 * (srt[nxt + 1] - srt[prev + 1])

\* n/d rounded to the nearest integer, ties to even
RoundDiv(n, d) ==
  LET q == n \div d
      r == n % d
  IN IF 2 * r < d THEN q
     ELSE IF 2 * r > d THEN q + 1
     ELSE IF q % 2 = 0 THEN q ELSE q + 1

\* round(percent / nbr_of_intervals, 3), percent in fifths of a thousandth
round3(percent5, n) == IF percent5 = nan THEN nan ELSE RoundDiv(percent5, 5 * n)

\* round(a + b, 3) of two floats that hold thousandths
add3(a, b) == IF a = nan \/ b = nan THEN nan ELSE a + b

\* the while loop of lines 159-167 in the branch percent <= nbr_of_intervals
RECURSIVE DefaultLoop(_, _, _, _)
DefaultLoop(acc, frm, to, interval_unit) ==
  IF Len(acc) >= nbr_of_intervals THEN acc
  ELSE DefaultLoop(Append(acc, <<frm, to>>), add3(frm, interval_unit),
                   add3(to, interval_unit), interval_unit)

\* percent > nbr_of_intervals
GtIntervals(percent5) == Lt(nbr_of_intervals * Milli * 5, percent5)

\* np.percentile of an empty array: IndexError, or nan with a warning,
\* depending on the numpy release
PercentOutcomes(s) ==
  IF Len(s) = 0 THEN {"IndexError", "nan"} ELSE {"value"}

DefaultIntervals ==
  /\ pc = "intervals"
  /\ \E hv \in BOOLEAN, po \in PercentOutcomes(series) :
       /\ intervals_arg' = NoneType
       /\ higher_vals_arg' = hv
       /\ IF po = "IndexError"
          THEN /\ err' = Raise("IndexError", "percentile", -1)
               /\ pc' = "raised"
               /\ intervals' = NoneType
               /\ higher_vals' = hv
          ELSE LET percent == IF po = "nan" THEN nan
                              ELSE percentile(values(series), PercentileQ)
               IN IF GtIntervals(percent)
                  \* roundup calls ceil, a name the module never imports
                  THEN /\ err' = Raise("NameError", "ceil", -1)
                       /\ pc' = "raised"
                       /\ intervals' = NoneType
                       /\ higher_vals' = hv
                  ELSE LET interval_unit == round3(percent, nbr_of_intervals)
                       IN /\ intervals' = NdArray("float64",
                                 DefaultLoop(<<>>, 0, interval_unit, interval_unit))
                          /\ higher_vals' = TRUE
                          /\ err' = err
                          /\ pc' = "grouping"
  /\ UNCHANGED <<series_type, series, bar_color, intervals_dict, x, y, kind,
                 output, fig, result>>

(* -------------------------- INTERVALS CHECK ---------------------------- *)
\* np.array(list) of rows of unequal shape: ValueError (numpy >= 1.24) or an
\* object array (older releases)
Ragged(rows) == \E i \in 1..Len(rows) : rows[i] \in {Scalar, ShortList}
RaggedOutcomes == {"ValueError", "object"}

ArrayDtype(rows) ==
  IF Ragged(rows) THEN "object"
  ELSE IF \E i \in 1..Len(rows) : rows[i] = NonNumPair THEN "str"
  ELSE "int64"

ArrayRows(rows) ==
  IF ArrayDtype(rows) = "int64"
  THEN [i \in 1..Len(rows) |-> <<rows[i][2], rows[i][3]>>]
  ELSE rows

\* the for loop of lines 180-208 from position i on; conv: intervals is
\* already rebound to an ndarray.  The result is the exception raised
\* (NoErr if none) and whether intervals ends as an ndarray.
RECURSIVE CheckLoop(_, _, _, _)
CheckLoop(rows, i, conv, ragged) ==
  IF i > Len(rows) THEN [err |-> NoErr, conv |-> conv]
  ELSE LET val == rows[i]
       IN IF val = Scalar
          THEN [err |-> Raise("TypeError", "intervals", i - 1), conv |-> conv]
          ELSE IF val = ShortList
          THEN [err |-> Raise("TypeError", "intervals", i - 1), conv |-> conv]
          ELSE IF val = NonNumPair
          THEN [err |-> Raise("ValueError", "intervals", i - 1), conv |-> conv]
          ELSE IF ~(val[2] < val[3])
          THEN [err |-> Raise("ValueError", "intervals", i - 1), conv |-> conv]
          ELSE IF ~conv /\ Ragged(rows) /\ ragged = "ValueError"
          THEN [err |-> Raise("ValueError", "np.array", -1), conv |-> conv]
          ELSE CheckLoop(rows, i + 1, TRUE, ragged)

IntervalsCheck ==
  /\ pc = "intervals"
  /\ \E iv \in IntervalsInputs \ {NoneType}, hv \in BOOLEAN, ragged \in RaggedOutcomes :
       /\ intervals_arg' = iv
       /\ higher_vals_arg' = hv
       /\ higher_vals' = hv
       /\ IF iv.type # "list"
          THEN /\ err' = Raise("TypeError", "intervals", -1)
               /\ pc' = "raised"
               /\ intervals' = iv
          ELSE LET r == CheckLoop(iv.rows, 1, FALSE, ragged)
               IN /\ intervals' = IF r.conv
                                  THEN NdArray(ArrayDtype(iv.rows), ArrayRows(iv.rows))
                                  ELSE iv
                  /\ err' = r.err
                  /\ pc' = IF r.err = NoErr THEN "grouping" ELSE "raised"
  /\ UNCHANGED <<series_type, series, bar_color, intervals_dict, x, y, kind,
                 output, fig, result>>

(* ------------------------------ GROUPING ------------------------------- *)
\* a bound of the resolved array in thousandths
Bound(dtype, b) == IF dtype = "float64" THEN b ELSE b * Milli

\* mutant: both ends inclusive, (x >= itrvl[0]) & (x <= itrvl[1])
InIntervalClosed(v, dtype, itrvl) ==
  Le(Bound(dtype, itrvl[1]), v) /\ Le(v, Bound(dtype, itrvl[2]))

\* mutant: left-inclusive, right-exclusive, (x >= itrvl[0]) & (x < itrvl[1])
InIntervalRightOpen(v, dtype, itrvl) ==
  Le(Bound(dtype, itrvl[1]), v) /\ Lt(v, Bound(dtype, itrvl[2]))

\* (x > itrvl[0]) & (x <= itrvl[1])
InInterval(v, dtype, itrvl) ==
  Lt(Bound(dtype, itrvl[1]), v) /\ Le(v, Bound(dtype, itrvl[2]))

\* x > intervals[-1][1]
AboveLast(v, dtype, last) == Lt(Bound(dtype, last[2]), v)

IntervalKey(dtype, itrvl) == NumStr(dtype, itrvl[1]) \o "-" \o NumStr(dtype, itrvl[2])
HigherKey(dtype, last) == "+" \o NumStr(dtype, last[2])

\* d[key] = [part, len(part)] on an insertion-ordered dict
HasKey(d, key) == \E i \in 1..Len(d) : d[i].key = key
DictSet(d, key, part) ==
  LET entry == [key |-> key, part |-> part, len |-> Len(part)]
  IN IF HasKey(d, key)
     THEN [i \in 1..Len(d) |-> IF d[i].key = key THEN entry ELSE d[i]]
     ELSE Append(d, entry)

\* the for loop of lines 225-229 from row i on
RECURSIVE GroupLoop(_, _, _, _, _)
GroupLoop(d, s, dtype, rows, i) ==
  IF i > Len(rows) THEN d
  ELSE LET part == SelectSeq(s, LAMBDA v : InInterval(v, dtype, rows[i]))
       IN GroupLoop(DictSet(d, IntervalKey(dtype, rows[i]), part), s, dtype, rows, i + 1)

Grouping ==
  /\ pc = "grouping"
  /\ LET s == values(series)
         rows == intervals.rows
         dtype == intervals.dtype
         d == GroupLoop(<<>>, s, dtype, rows, 1)
     IN IF ~higher_vals
        THEN /\ intervals_dict' = d
             /\ pc' = "ploting"
             /\ UNCHANGED err
        ELSE IF Len(rows) = 0
        \* intervals[-1] of an empty list
        THEN /\ intervals_dict' = d
             /\ err' = Raise("IndexError", "intervals[-1]", -1)
             /\ pc' = "raised"
        ELSE LET last == rows[Len(rows)]
                 part == SelectSeq(s, LAMBDA v : AboveLast(v, dtype, last))
             IN /\ intervals_dict' = DictSet(d, HigherKey(dtype, last), part)
                /\ pc' = "ploting"
                /\ UNCHANGED err
  /\ UNCHANGED <<series_type, series, bar_color, intervals_arg, higher_vals_arg,
                 intervals, higher_vals, x, y, kind, output, fig, result>>

(* ------------------------------ PLOTING -------------------------------- *)
Ploting ==
  /\ pc = "ploting"
  /\ x' = [i \in 1..Len(intervals_dict) |-> intervals_dict[i].key]
  /\ y' = [i \in 1..Len(intervals_dict) |-> intervals_dict[i].len]
  /\ \E grid \in BOOLEAN :
       /\ IF kind = "bar"
          THEN /\ fig' = [kind |-> "bar", x |-> x', y |-> y',
                          marker_color |-> bar_color, showgrid |-> grid]
               /\ pc' = "output"
               /\ UNCHANGED err
          ELSE IF kind = "pie"
          THEN /\ fig' = [kind |-> "pie", x |-> x', y |-> y',
                          marker_color |-> "none", showgrid |-> FALSE]
               /\ pc' = "output"
               /\ UNCHANGED err
          ELSE /\ err' = Raise("NameError", "kind", -1)
               /\ pc' = "raised"
               /\ UNCHANGED fig
  /\ UNCHANGED <<series_type, series, bar_color, intervals_arg, higher_vals_arg,
                 intervals, higher_vals, intervals_dict, kind, output, result>>

(* ------------------------------- OUTPUT -------------------------------- *)
\* pio.to_image needs the orca engine; without it the collaborator raises
OrcaOutcomes == {"png", "ValueError"}

Output ==
  /\ pc = "output"
  /\ \E o \in Outputs, orca \in OrcaOutcomes :
       /\ output' = o
       /\ IF o = "img" \/ o = "bytes"
          THEN IF orca = "ValueError"
               THEN /\ err' = Raise("ValueError", "to_image", -1)
                    /\ pc' = "raised"
                    /\ UNCHANGED result
               ELSE /\ result' = IF o = "img" THEN "Image" ELSE "bytes"
                    /\ pc' = "returned"
                    /\ UNCHANGED err
          ELSE IF o = "fig"
          THEN /\ result' = "shown"
               /\ pc' = "returned"
               /\ UNCHANGED err
          ELSE IF o = "fig_obj"
          THEN /\ result' = "Figure"
               /\ pc' = "returned"
               /\ UNCHANGED err
          ELSE /\ err' = Raise("NameError", "output", -1)
               /\ pc' = "raised"
               /\ UNCHANGED result
  /\ UNCHANGED <<series_type, series, bar_color, intervals_arg, higher_vals_arg,
                 intervals, higher_vals, intervals_dict, x, y, kind, fig>>

Next ==
  \/ SeriesCheck
  \/ BarColorCheck
  \/ DefaultIntervals
  \/ IntervalsCheck
  \/ Grouping
  \/ Ploting
  \/ Output

Spec == Init /\ [][Next]_vars

(* =========================== properties ================================ *)
\* the resolver ran and accepted or derived an interval set
Accepted ==
  \/ pc \in {"grouping", "ploting", "output", "returned"}
  \/ pc = "raised" /\ err.at \in {"intervals[-1]", "kind", "output", "to_image"}

\* the binner ran to its end
Grouped ==
  \/ pc \in {"ploting", "output", "returned"}
  \/ pc = "raised" /\ err.at \in {"kind", "output", "to_image"}

\* the x and y axes were built
AxesBuilt ==
  \/ pc \in {"output", "returned"}
  \/ pc = "raised" /\ err.at \in {"kind", "output", "to_image"}

\* the call left the resolver, with or without an exception of the resolver
LeftResolver ==
  \/ Accepted
  \/ pc = "raised" /\ err.at \in {"percentile", "ceil", "intervals", "np.array"}

DefaultMode == LeftResolver /\ intervals_arg = NoneType
CustomMode == LeftResolver /\ intervals_arg # NoneType

Range(s) == {s[i] : i \in 1..Len(s)}
Retained == values(series)
RECURSIVE SumLen(_)
SumLen(d) == IF Len(d) = 0 THEN 0 ELSE Head(d).len + SumLen(Tail(d))
CountPositive(s) == Len(SelectSeq(s, LAMBDA v : v > 0))
BinsHolding(v) == {j \in 1..Len(intervals_dict) : v \in Range(intervals_dict[j].part)}
Contiguous(rows) == \A i \in 2..Len(rows) : rows[i][1] = rows[i - 1][2]
HasHigherBin ==
  \E j \in 1..Len(intervals_dict) :
     intervals_dict[j].key = HigherKey(intervals.dtype, intervals.rows[Len(intervals.rows)])

\* C1 (as claimed): in default-interval mode the counts of all bins, the
\* overflow bin included, add up to the number of retained values > 0.
C1_SumOfCounts ==
  (DefaultMode /\ Grouped) => SumLen(intervals_dict) = CountPositive(Retained)

\* C2 (as claimed): with contiguous custom intervals and higher_vals=True,
\* every retained value >= the first lower bound is in exactly one bin.
C2_Original ==
  (CustomMode /\ Grouped /\ higher_vals_arg /\ Len(intervals.rows) > 0
     /\ Contiguous(intervals.rows))
  => \A v \in Range(Retained) :
        v >= intervals.rows[1][1] * Milli => Cardinality(BinsHolding(v)) = 1

\* C2 (amended): with contiguous custom intervals and higher_vals=True, every
\* retained value strictly greater than the first interval's lower bound is
\* in exactly one bin; a value equal to that bound is in none.
C2_ExactlyOneBin ==
  (CustomMode /\ Grouped /\ higher_vals_arg /\ Len(intervals.rows) > 0
     /\ Contiguous(intervals.rows))
  => \A v \in Range(Retained) :
        /\ v > intervals.rows[1][1] * Milli => Cardinality(BinsHolding(v)) = 1
        /\ v = intervals.rows[1][1] * Milli => BinsHolding(v) = {}

C2_Witness ==
  /\ CustomMode /\ Grouped /\ higher_vals_arg
  /\ intervals.rows = <<<<0, 2>>, <<2, 4>>>>
  /\ Retained = <<2000, 30000>>
  /\ Len(intervals_dict) = 3
  /\ intervals_dict[1].part = <<2000>>
  /\ intervals_dict[3].part = <<30000>>

\* C3 (as claimed): the x axis has one label per accepted interval, plus one
\* if the overflow bin is enabled, in interval order with the overflow last.
C3_AxisLength ==
  AxesBuilt =>
    LET rows == intervals.rows
        n == Len(rows)
    IN /\ Len(x) = n + (IF higher_vals THEN 1 ELSE 0)
       /\ \A i \in 1..n : i <= Len(x) /\ x[i] = IntervalKey(intervals.dtype, rows[i])
       /\ higher_vals => x[Len(x)] = HigherKey(intervals.dtype, rows[n])

\* C4 (as claimed): series [1,2,3,4,5,100] without intervals resolves to unit
\* 0.8, intervals [0,0.8] .. [3.2,4.0], and the overflow bin holds 5 and 100.
C4_Original ==
  (DefaultMode /\ Grouped /\ series = Scenario1) =>
    /\ intervals.rows = <<<<0, 800>>, <<800, 1600>>, <<1600, 2400>>,
                          <<2400, 3200>>, <<3200, 4000>>>>
    /\ \E j \in 1..Len(intervals_dict) :
          /\ intervals_dict[j].key = "+4.0"
          /\ intervals_dict[j].part = <<5000, 100000>>

\* C4 (amended): series [1,2,3,4,5,100] without intervals has 80th percentile
\* 5, unit 1.0, intervals [0,1],[1,2],[2,3],[3,4],[4,5], and the overflow bin
\* (bound 5.0) holds exactly the value 100.
C4_Scenario1 ==
  (DefaultMode /\ series = Scenario1) =>
    /\ percentile(Retained, PercentileQ) = 5 * 5 * Milli
    /\ err.at \notin {"percentile", "ceil"}
    /\ intervals.rows = <<<<0, 1000>>, <<1000, 2000>>, <<2000, 3000>>,
                          <<3000, 4000>>, <<4000, 5000>>>>
    /\ Grouped =>
         /\ Len(intervals_dict) = 6
         /\ intervals_dict[5] = [key |-> "4.0-5.0", part |-> <<5000>>, len |-> 1]
         /\ intervals_dict[6] = [key |-> "+5.0", part |-> <<100000>>, len |-> 1]

C4_Witness == DefaultMode /\ Grouped /\ series = Scenario1 /\ pc = "returned"

\* C5 (as claimed): for a non-empty series without intervals the resolver
\* returns 5 contiguous intervals [k*unit, (k+1)*unit], unit being the
\* smallest multiple of 100 >= P/5 when P > 5 and P/5 rounded to 3 decimals
\* otherwise.
C5_DefaultIntervals ==
  (DefaultMode /\ Len(series) > 0) =>
    LET percent == percentile(Retained, PercentileQ)
        hundred == 100 * Milli
        unit == IF percent > 5 * 5 * Milli
                THEN ((percent + 25 * hundred - 1) \div (25 * hundred)) * hundred
                ELSE RoundDiv(percent, 25)
    IN /\ intervals.type = "ndarray"
       /\ Len(intervals.rows) = 5
       /\ \A k \in 0..4 : /\ k + 1 <= Len(intervals.rows)
                          /\ intervals.rows[k + 1] = <<k * unit, (k + 1) * unit>>

\* C6 (as claimed): every interval that reaches the binner has its upper
\* bound strictly greater than its lower bound.
C6_UpperExceedsLower ==
  pc = "grouping" =>
    \A i \in 1..Len(intervals.rows) : Lt(intervals.rows[i][1], intervals.rows[i][2])

\* the first element of a custom list that is not a pair of numbers lo < hi
IsGoodPair(e) == e[1] = "pair" /\ e[2] < e[3]
Offending(rows) == {i \in 1..Len(rows) : ~IsGoodPair(rows[i])}
FirstOffending(rows) == CHOOSE i \in Offending(rows) : \A j \in Offending(rows) : i <= j

\* C7 (as claimed): custom intervals fail before binning iff the value is not
\* a list or an element is not a pair lo < hi; TypeKind for a wrong container
\* type, ValueKind for wrong arity, non-numeric member or lo >= hi; the error
\* names the smallest offending index.
C7_IntervalErrors ==
  CustomMode =>
    IF intervals_arg.type # "list"
    THEN pc = "raised" /\ err.cls = "TypeError" /\ err.at = "intervals"
    ELSE IF Offending(intervals_arg.rows) = {}
    THEN err.at \notin {"intervals", "np.array"}
    ELSE LET i == FirstOffending(intervals_arg.rows)
         IN /\ pc = "raised"
            /\ intervals_dict = <<>>
            /\ err.cls = IF intervals_arg.rows[i] = Scalar THEN "TypeError"
                         ELSE "ValueError"
            /\ err.idx = i - 1

\* C8 (as claimed): the overflow bin is produced iff intervals were not
\* supplied or higher_vals is True; with custom intervals and
\* higher_vals=False values outside every interval are in no bin and the
\* call does not fail because of it.
C8_OverflowIff ==
  (pc \in {"raised", "returned"} /\ err.at \notin {"series", "bar_color", "intervals", "np.array"})
  => /\ (Len(intervals.rows) > 0 /\ HasHigherBin)
          <=> (intervals_arg = NoneType \/ higher_vals_arg)
     /\ (intervals_arg # NoneType /\ ~higher_vals_arg) =>
          /\ err.at \notin {"intervals[-1]", "percentile", "ceil"}
          /\ \A v \in Range(Retained) :
                (\A i \in 1..Len(intervals.rows) :
                    ~(intervals.rows[i][1] * Milli < v /\ v <= intervals.rows[i][2] * Milli))
                => BinsHolding(v) = {}

C10_KindAndOutput ==
  (pc \in {"raised", "returned"} /\ err.at \notin {"series", "bar_color", "intervals", "np.array"})
  => /\ (err.cls = "NameError" /\ err.at = "kind") <=> kind \notin {"bar", "pie"}
     /\ kind \in {"bar", "pie"} =>
          ((err.cls = "NameError" /\ err.at = "output")
             <=> output \notin {"img", "bytes", "fig", "fig_obj"})
     /\ err.at \in {"kind", "output"} => result = "none"
====
